---- MODULE Spec2Model ----
(***************************************************************************)
(* Model of confluence-reader-mcp.                                         *)
(*                                                                         *)
(*   DiffSpec : the line diff of src/src/compare/diff.ts                   *)
(*              (split, LCS table, backward walk, hunk grouping,           *)
(*              rendering, statistics) applied to bounded texts.           *)
(*   TreeSpec : the recursive page-tree fetch of the Confluence client     *)
(*              (fetchPageTree / fetchChildPages / parallelMap) against a  *)
(*              content source whose requests complete in any order and    *)
(*              may fail.                                                  *)
(*   ServerSpec : the server process of src/src/index.ts: main() with the  *)
(*              environment check and the authentication probe, then the   *)
(*              tool calls, each extracting the page id from its url.      *)
(*   ListSpec : one call of fetchChildPages against any source of at most  *)
(*              MaxPages pages, the last of which may repeat for ever.     *)
(***************************************************************************)
EXTENDS Integers, Sequences, FiniteSets, TLC

VARIABLES
    \* ---- DiffSpec ----
    oldText,      \* argument oldText of the call under study (sequence of characters)
    newText,      \* argument newText
    dpc,          \* "input" -> "diffed" (generateUnifiedDiff ran) -> "done" (generateDiffStats ran)
    diffLines,    \* local diffLines of generateUnifiedDiff (the edit script)
    hunks,        \* local hunks of formatUnifiedDiff: each hunk a sequence of positions in diffLines
    output,       \* value returned by generateUnifiedDiff, as its sequence of rendered lines
    stats,        \* value returned by generateDiffStats
    \* ---- TreeSpec ----
    depth,        \* argument depth of the root call of fetchPageTree
    concurrency,  \* argument concurrency of the root call
    calls,        \* the locals of every call of fetchPageTree and of its parallelMap
    failures,     \* history: the source requests that failed, as <<call, kind>>
    \* ---- ServerSpec ----
    env,          \* process.env: the four CONFLUENCE_* variables
    spc,          \* position of main(): "start" -> "probing" -> "serving", or "exited"
    probe,        \* what the fetch of validateAuthentication settled with
    exitCode,     \* the code given to process.exit
    tcalls,       \* the tool calls made so far, the last one possibly still running
    requests,     \* history: the requests the tool handlers sent to the content source
    \* ---- ListSpec ----
    listSource,   \* what the source answers to the request of each page of the listing
    lpc,          \* position of fetchChildPages: "request" (a GET is pending), "returned", "failed"
    allPages,     \* local all: the entries collected so far
    cursor,       \* local cursor: the cursor of the pending GET (NoCursor when undefined)
    asked         \* history: the cursors of the GETs sent, in order

diffVars == <<oldText, newText, dpc, diffLines, hunks, output, stats>>
treeVars == <<depth, concurrency, calls, failures>>

serverVars == <<env, spc, probe, exitCode, tcalls, requests>>

listVars == <<listSource, lpc, allPages, cursor, asked>>

vars == <<diffVars, treeVars, serverVars, listVars>>

(***************************************************************************)
(* Bounds                                                                  *)
(***************************************************************************)
\* Total number of characters of oldText and newText together.
MaxTextLen == 10

(***************************************************************************)
(* Texts                                                                   *)
(***************************************************************************)
NL == "\n"
\* The characters texts are drawn from: one letter and the line terminator.
Chars == {"a", NL}

TextsUpTo(n) == UNION {[1..k -> Chars] : k \in 0..n}

Max(x, y) == IF x >= y THEN x ELSE y
Min(x, y) == IF x <= y THEN x ELSE y

\* String.prototype.split('\n'): the pieces between line terminators; a text
\* without terminator (the empty text included) is one piece.
RECURSIVE SplitFrom(_, _, _, _)
SplitFrom(t, k, lines, cur) ==
    IF k > Len(t) THEN Append(lines, cur)
    ELSE IF t[k] = NL THEN SplitFrom(t, k + 1, Append(lines, cur), <<>>)
    ELSE SplitFrom(t, k + 1, lines, Append(cur, t[k]))

Split(t) == SplitFrom(t, 1, <<>>, <<>>)

(***************************************************************************)
(* longestCommonSubsequence: the table dp, row i at position i+1, column j *)
(* at position j+1.                                                        *)
(***************************************************************************)
RECURSIVE FillRow(_, _, _, _, _, _)
FillRow(a, b, i, prev, j, row) ==
    IF j > Len(b) THEN row
    ELSE FillRow(a, b, i, prev, j + 1,
                 Append(row, IF a[i] = b[j] THEN prev[j] + 1
                             ELSE Max(prev[j + 1], row[j])))

RECURSIVE FillTable(_, _, _, _)
FillTable(a, b, i, table) ==
    IF i > Len(a) THEN table
    ELSE FillTable(a, b, i + 1, Append(table, FillRow(a, b, i, table[i], 1, <<0>>)))

longestCommonSubsequenceUnfilled(a, b) ==
    [i \in 1..(Len(a) + 1) |-> [j \in 1..(Len(b) + 1) |-> 0]]
longestCommonSubsequence(a, b) ==
    FillTable(a, b, 1, << [j \in 1..(Len(b) + 1) |-> 0] >>)

DpAt(dp, i, j) == dp[i + 1][j + 1]

(***************************************************************************)
(* DiffLine and buildDiff                                                  *)
(***************************************************************************)
\* An absent oldLineNum / newLineNum (the optional fields of DiffLine).
NoLineNum == 0

DiffLine(type, line, oldLineNum, newLineNum) ==
    [type |-> type, line |-> line, oldLineNum |-> oldLineNum, newLineNum |-> newLineNum]

\* The tie-break of the backward walk: an addition when stepping back in b loses nothing.
PreferRemoveOnTie(dp, i, j) == DpAt(dp, i, j - 1) > DpAt(dp, i - 1, j)
PreferAdd(dp, i, j) == DpAt(dp, i, j - 1) >= DpAt(dp, i - 1, j)

\* result.unshift(x)
UnshiftAsPush(result, x) == Append(result, x)
Unshift(result, x) == <<x>> \o result

RECURSIVE BuildDiffFrom(_, _, _, _, _, _)
BuildDiffFrom(a, b, dp, i, j, result) ==
    IF ~(i > 0 \/ j > 0) THEN result
    ELSE IF i > 0 /\ j > 0 /\ a[i] = b[j]
        THEN BuildDiffFrom(a, b, dp, i - 1, j - 1,
                           Unshift(result, DiffLine("context", a[i], i, j)))
    ELSE IF j > 0 /\ (i = 0 \/ PreferAdd(dp, i, j))
        THEN BuildDiffFrom(a, b, dp, i, j - 1,
                           Unshift(result, DiffLine("add", b[j], NoLineNum, j)))
    ELSE IF i > 0
        THEN BuildDiffFrom(a, b, dp, i - 1, j,
                           Unshift(result, DiffLine("remove", a[i], i, NoLineNum)))
    ELSE result  \* not reached: i > 0 \/ j > 0 and the second branch covers i = 0

buildDiff(a, b, dp) == BuildDiffFrom(a, b, dp, Len(a), Len(b), <<>>)

(***************************************************************************)
(* formatUnifiedDiff: hunk grouping.  A DiffLine object is identified by   *)
(* its position in diffLines (currentHunk.includes compares identities),   *)
(* so a hunk is kept as the sequence of the positions it holds; idx below  *)
(* is the 0-based index of the forEach callback.                           *)
(***************************************************************************)
contextLinesDefault == 3

SeqToSet(s) == {s[k] : k \in 1..Len(s)}

RECURSIVE FilterSeq(_, _)
\* s.filter(x => !(x in drop))
FilterSeq(s, drop) ==
    IF s = <<>> THEN <<>>
    ELSE (IF Head(s) \in drop THEN <<>> ELSE <<Head(s)>>) \o FilterSeq(Tail(s), drop)

\* diffLines.slice(start, idx) as 0-based indices start .. idx-1
SliceIdx(start, idx) == [k \in 1..Max(0, idx - start) |-> start + k - 1]

GroupInit == [hunks |-> <<>>, currentHunk |-> <<>>, lastChangeIndex |-> -1]

\* Where the leading context of a change at idx starts.
ContextStartAfterLastChange(lastChangeIndex, idx, contextLines) ==
    Max(0, lastChangeIndex + 1)
ContextStart(lastChangeIndex, idx, contextLines) ==
    Max(0, Max(lastChangeIndex + 1, idx - contextLines))

\* A context line at idx still belongs to the hunk of the last change (diff.ts line 81).
TrailingContextOffByOne(lastChangeIndex, idx, contextLines) ==
    lastChangeIndex >= 0 /\ idx - lastChangeIndex <= contextLines + 1
TrailingContext(lastChangeIndex, idx, contextLines) ==
    lastChangeIndex >= 0 /\ idx - lastChangeIndex <= contextLines

\* One call of the forEach callback (diff.ts lines 72-92).
GroupStep(g, dls, idx, contextLines) ==
    LET line == dls[idx + 1]
        isChange == line.type # "context"
    IN IF isChange THEN
          LET start == ContextStart(g.lastChangeIndex, idx, contextLines)
              contextBefore == FilterSeq(SliceIdx(start, idx), SeqToSet(g.currentHunk))
          IN [g EXCEPT !.currentHunk = g.currentHunk \o contextBefore \o <<idx>>,
                       !.lastChangeIndex = idx]
       ELSE IF TrailingContext(g.lastChangeIndex, idx, contextLines) THEN
          [g EXCEPT !.currentHunk = Append(g.currentHunk, idx)]
       ELSE IF g.lastChangeIndex >= 0 /\ idx - g.lastChangeIndex > contextLines THEN
          [g EXCEPT !.hunks = IF Len(g.currentHunk) > 0 THEN Append(g.hunks, g.currentHunk)
                              ELSE g.hunks,
                    !.currentHunk = IF Len(g.currentHunk) > 0 THEN <<>> ELSE g.currentHunk,
                    !.lastChangeIndex = -1]
       ELSE g

RECURSIVE GroupFrom(_, _, _, _)
GroupFrom(g, dls, idx, contextLines) ==
    IF idx >= Len(dls) THEN g
    ELSE GroupFrom(GroupStep(g, dls, idx, contextLines), dls, idx + 1, contextLines)

\* The hunks of formatUnifiedDiff (lines 68-96), each as 1-based positions in dls.
GroupHunks(dls, contextLines) ==
    LET g == GroupFrom(GroupInit, dls, 0, contextLines)
        all == IF Len(g.currentHunk) > 0 THEN Append(g.hunks, g.currentHunk) ELSE g.hunks
    IN [h \in 1..Len(all) |-> [k \in 1..Len(all[h]) |-> all[h][k] + 1]]

(***************************************************************************)
(* formatUnifiedDiff: rendering.  The returned string is the join by "\n"  *)
(* of the rendered lines; it is kept as the sequence of those lines, each  *)
(* a record of the pieces its template interpolates.                       *)
(***************************************************************************)
OldHeader(label) == [kind |-> "---", label |-> label]
NewHeader(label) == [kind |-> "+++", label |-> label]
Sentinel == [kind |-> "(no differences)"]
EmptyLine == [kind |-> ""]
HunkHeader(oldStart, oldCount, newStart, newCount) ==
    [kind |-> "@@", oldStart |-> oldStart, oldCount |-> oldCount,
     newStart |-> newStart, newCount |-> newCount]
\* ' ' / '+' / '-' followed by the line
BodyLine(dl) ==
    [kind |-> CASE dl.type = "context" -> " "
                [] dl.type = "add" -> "+"
                [] dl.type = "remove" -> "-",
     text |-> dl.line]

\* x || 1 for an optional line number
OrOneDropped(x) == x
OrOne(x) == IF x = NoLineNum THEN 1 ELSE x

DiffLineTypes == {"context", "add", "remove"}
\* The filter predicates on DiffLine.type, each as the set of types it accepts.
NotAdd == DiffLineTypes \ {"add"}
NotRemove == DiffLineTypes \ {"remove"}
IsAdd == {"add"}
IsRemove == {"remove"}

\* hunk.filter(l => <l.type in types>).length
CountIn(h, dls, types) == Cardinality({k \in 1..Len(h) : dls[h[k]].type \in types})

\* Header and body of one hunk (diff.ts lines 99-123).
RenderHunk(h, dls) ==
    LET firstLine == dls[h[1]]
        oldStart == OrOne(firstLine.oldLineNum)
        newStart == OrOne(firstLine.newLineNum)
        oldCount == CountIn(h, dls, NotAdd)
        newCount == CountIn(h, dls, NotRemove)
    IN <<HunkHeader(oldStart, oldCount, newStart, newCount)>>
       \o [k \in 1..Len(h) |-> BodyLine(dls[h[k]])]

RECURSIVE RenderHunks(_, _, _)
RenderHunks(hs, k, dls) ==
    IF k > Len(hs) THEN <<>> ELSE RenderHunk(hs[k], dls) \o RenderHunks(hs, k + 1, dls)

\* The condition under which the sentinel body is returned (diff.ts line 59).
NothingToShow(dls, hs) == Len(dls) = 0

formatUnifiedDiff(oldLabel, newLabel, dls, contextLines) ==
    LET hs == GroupHunks(dls, contextLines)
    IN IF NothingToShow(dls, hs)
       THEN <<OldHeader(oldLabel), NewHeader(newLabel), Sentinel, EmptyLine>>
       ELSE <<OldHeader(oldLabel), NewHeader(newLabel)>> \o RenderHunks(hs, 1, dls)

oldLabelDefault == "a/original"
newLabelDefault == "b/modified"

\* The edit script both exported functions compute from their two texts.
EditScript(oldT, newT) ==
    LET oldLines == Split(oldT)
        newLines == Split(newT)
        dp == longestCommonSubsequence(oldLines, newLines)
    IN buildDiff(oldLines, newLines, dp)

generateUnifiedDiff(oldT, newT, oldLabel, newLabel) ==
    formatUnifiedDiff(oldLabel, newLabel, EditScript(oldT, newT), contextLinesDefault)

\* diffLines.filter(l => <l.type in types>).length
CountType(dls, types) == Cardinality({k \in 1..Len(dls) : dls[k].type \in types})

\* diffLines.filter(l => l.type === 'add').length
StatsAdditionsNotRemove(dls) == CountType(dls, NotRemove)
StatsAdditions(dls) == CountType(dls, IsAdd)

\* diffLines.filter(l => l.type === 'remove').length
StatsDeletionsNotAdd(dls) == CountType(dls, NotAdd)
StatsDeletions(dls) == CountType(dls, IsRemove)

generateDiffStats(oldT, newT) ==
    LET dls == EditScript(oldT, newT)
        additions == StatsAdditions(dls)
        deletions == StatsDeletions(dls)
    IN [additions |-> additions, deletions |-> deletions, changes |-> additions + deletions]

(***************************************************************************)
(* The content source (Confluence REST API v2) as one concrete site.       *)
(* Page ids, titles and storage bodies are token sequences; the child      *)
(* relation holds a node with two listing pages (R), a node that lists     *)
(* itself (A), a leaf with an empty first page (B) and a cycle through the *)
(* root (C).                                                               *)
(***************************************************************************)
RootId == "R"
PageIds == {"R", "A", "B", "C"}

PageTitle(id) == <<"Title of", id>>
\* A listing entry that carries no title.
NoTitle == <<>>

\* body.storage.value of a page; page B has an empty body.
PageStorage(id) == IF id = "B" THEN <<>> ELSE <<"<p>", id, "</p>">>

\* GET /pages/{id}: the ConfluencePageResponse of a successful request.
SourcePage(id) == [id |-> id, title |-> PageTitle(id), storage |-> PageStorage(id)]

ListingEntry(id) == [id |-> id, title |-> PageTitle(id)]

\* The pages of the child listing of each node, in the order the source serves them.
ListingPages ==
    [id \in PageIds |->
        CASE id = "R" -> << <<ListingEntry("A"), ListingEntry("B")>>, <<ListingEntry("C")>> >>
          [] id = "A" -> << <<ListingEntry("B")>>, <<ListingEntry("A")>> >>
          [] id = "B" -> << <<>> >>
          [] id = "C" -> << <<ListingEntry("R")>> >>]

\* No cursor: the first request, or a next link without a cursor parameter.
NoCursor == <<>>
\* _links.next absent.
NoNext == [present |-> FALSE, cursor |-> NoCursor]
NextLink(c) == [present |-> TRUE, cursor |-> c]

\* The page number a cursor stands for.
PageNo(c) == IF c = NoCursor THEN 1 ELSE Len(c) + 1
CursorOfPage(k) == [j \in 1..(k - 1) |-> "c"]

\* GET /pages/{id}/children?cursor=c: the ConfluenceChildrenResponse of a successful request.
SourceChildren(id, c) ==
    LET k == PageNo(c)
        pages == ListingPages[id]
    IN [results |-> pages[k],
        next |-> IF k < Len(pages) THEN NextLink(CursorOfPage(k + 1)) ELSE NoNext]

(***************************************************************************)
(* The source of one listing (ListSpec): any answers to the first MaxPages *)
(* pages; the answer to every later page is that of the last one.          *)
(***************************************************************************)
\* Pages of a listing the source describes one by one.
MaxPages == 3
\* GETs of one call the model follows.
MaxRequests == 4

\* data.results of one page.
ListResults ==
    {<<>>, <<ListingEntry("A")>>, <<ListingEntry("B")>>,
     <<ListingEntry("A"), ListingEntry("B")>>}

\* A non-OK response.
ListFailure == [ok |-> FALSE, results |-> <<>>, link |-> "none"]
\* The answer to the GET of one page: a non-OK status, or entries with
\* _links.next absent ("none"), a next link whose cursor parameter is
\* missing or empty ("nocursor"), or a next link with the cursor of the
\* following page ("cursor").
ListAnswers ==
    [ok : {TRUE}, results : ListResults, link : {"none", "nocursor", "cursor"}]
        \cup {ListFailure}
ListSources == UNION {[1..n -> ListAnswers] : n \in 1..MaxPages}

\* The answer of source src to the GET with cursor c.
AnswerTo(src, c) == src[Min(PageNo(c), Len(src))]
\* data._links.next of that answer.
NextOf(ans, c) ==
    CASE ans.link = "none"     -> NoNext
      [] ans.link = "nocursor" -> NextLink(NoCursor)
      [] ans.link = "cursor"   -> NextLink(CursorOfPage(PageNo(c) + 1))

\* The whole listing of a node: its pages in order.
RECURSIVE FlattenFrom(_, _)
FlattenFrom(pages, k) == IF k > Len(pages) THEN <<>> ELSE pages[k] \o FlattenFrom(pages, k + 1)
FullListing(id) == FlattenFrom(ListingPages[id], 1)

\* The HTTP status a failing request for a page (or for its children) answers with.
ErrStatus(id) == IF id = "B" THEN "403" ELSE "404"
\* new Error(`Confluence API error ${res.status}: ...`).message
ApiErrorMessage(status) == <<"Confluence API error", status>>

(***************************************************************************)
(* storageToText: tags are dropped, closing block tags break lines, and    *)
(* the non-empty trimmed lines are kept.  On token sequences: the tokens   *)
(* that are not tags, in order.                                            *)
(***************************************************************************)
Tags == {"<p>", "</p>"}
storageToText(storageHtml) == FilterSeq(storageHtml, Tags)

\* const content = storage ? storageToText(storage) : ""
PageContent(page) == IF page.storage # <<>> THEN storageToText(page.storage) ELSE <<>>

(***************************************************************************)
(* PageNode                                                                *)
(***************************************************************************)
PageNode(id, title, content, children) ==
    [id |-> id, title |-> title, content |-> content, children |-> children]

\* An unassigned slot of new Array(items.length).
Hole == PageNode("", <<>>, <<>>, <<>>)
NoPage == [id |-> "", title |-> <<>>, storage |-> <<>>]
NoErr == <<>>

ErrorContentOfErrorObject(message) ==
    <<"[Error fetching page: ", "Error: ">> \o message \o <<"]">>
ErrorContent(message) == <<"[Error fetching page: ">> \o message \o <<"]">>

\* The stub the catch handler returns for a child whose fetchPageTree rejected.
ErrorStubDefaultTitle(child, message) ==
    PageNode(child.id, <<"Page", child.id>>, ErrorContent(message), <<>>)
ErrorStub(child, message) ==
    PageNode(child.id,
             IF child.title # NoTitle THEN child.title ELSE <<"Page", child.id>>,
             ErrorContent(message), <<>>)

\* What a promise settles with.
Fulfilled(v) == [ok |-> TRUE, value |-> v, message |-> NoErr]
Rejected(msg) == [ok |-> FALSE, value |-> Hole, message |-> msg]

\* fn(child): the child's fetchPageTree promise with .catch(err => stub) attached.
WithoutCatch(child, outcome) == outcome
WithCatch(child, outcome) ==
    IF outcome.ok THEN outcome ELSE Fulfilled(ErrorStub(child, outcome.message))

(***************************************************************************)
(* Calls of fetchPageTree.  A call is named by its path: <<>> is the call  *)
(* made by the caller, p \o <<k>> the call made by call p for the k-th     *)
(* entry of its child listing.                                             *)
(***************************************************************************)
\* Largest depth argument and largest concurrency argument of the root call.
MaxDepth == 2
MaxConcurrency == 2

Root == <<>>

RECURSIVE PathsBelow(_, _, _)
\* The calls a call p for page id with depth argument d can make, p included.
PathsBelow(p, id, d) ==
    {p} \cup IF d = 0 THEN {}
             ELSE UNION {PathsBelow(Append(p, k), FullListing(id)[k].id, d - 1) :
                            k \in 1..Len(FullListing(id))}

Paths == PathsBelow(Root, RootId, MaxDepth)
Parent(p) == SubSeq(p, 1, Len(p) - 1)
Last(p) == p[Len(p)]
Child(p, k) == Append(p, k)

\* Math.min(limit, items.length) workers
NumWorkersOnePerItem(limit, n) == n
NumWorkers(limit, n) == Min(limit, n)

\* results[i] = <value>, i the 0-based index the worker claimed
WriteResultInCompletionOrder(results, i, node) ==
    LET free == {k \in 1..Len(results) : results[k] = Hole}
    IN [results EXCEPT ![CHOOSE k \in free : \A j \in free : k <= j] = node]
WriteResultFromTheEnd(results, i, node) ==
    LET free == {k \in 1..Len(results) : results[k] = Hole}
    IN [results EXCEPT ![CHOOSE k \in free : \A j \in free : k >= j] = node]
WriteResult(results, i, node) == [results EXCEPT ![i + 1] = node]

\* The state of all calls before the root call is made.
IdleCalls ==
    [pc         |-> [p \in Paths |-> "idle"],
     page       |-> [p \in Paths |-> NoPage],
     cursor     |-> [p \in Paths |-> NoCursor],
     childPages |-> [p \in Paths |-> <<>>],
     results    |-> [p \in Paths |-> <<>>],
     idx        |-> [p \in Paths |-> 0],
     workers    |-> [p \in Paths |-> <<>>],
     ret        |-> [p \in Paths |-> Hole],
     err        |-> [p \in Paths |-> NoErr]]

\* The pageId argument of call p.
PageIdOf(s, p) == IF p = Root THEN RootId ELSE s.childPages[Parent(p)][Last(p)].id

\* fetchPageTree(cfg, pageId, depth, concurrency) is called: it runs up to
\* its first await, the dynamic import of the transform module.
StartCall(s, p) == [s EXCEPT !.pc[p] = "import"]

RECURSIVE Return(_, _, _, _)
RECURSIVE Reject(_, _, _, _)
RECURSIVE ChildSettled(_, _, _, _, _)
RECURSIVE WorkerLoop(_, _, _, _)

\* const i = idx++: the value of idx after the claim of index i.
NextIdxNotAdvanced(i) == i
NextIdx(i) == i + 1

\* await Promise.all(workers): every worker has returned.
FirstWorkerDone(ws) == \E v \in 1..Len(ws) : ws[v] = 0
WorkersNeverDone(ws) == FALSE
WorkersDone(ws) == \A v \in 1..Len(ws) : ws[v] = 0

\* One pass of the worker's while loop (from the test of idx to the await),
\* for worker w of call p; limit is the concurrency argument.
WorkerLoop(s, p, w, limit) ==
    LET n == Len(s.childPages[p]) IN
    IF s.idx[p] < n THEN
        LET i == s.idx[p]
            s1 == [s EXCEPT !.idx[p] = NextIdx(i), !.workers[p][w] = i + 1]
        IN StartCall(s1, Child(p, i + 1))
    ELSE
        LET s1 == [s EXCEPT !.workers[p][w] = 0] IN
        \* Promise.all(workers) resolves when the last worker has returned
        IF s1.pc[p] = "fanout" /\ WorkersDone(s1.workers[p])
        THEN Return(s1, p, PageNode(s1.page[p].id, s1.page[p].title,
                                    PageContent(s1.page[p]), s1.results[p]), limit)
        ELSE s1

\* The promise fn(items[i]) awaited by a worker of call p settles.
ChildSettled(s, p, k, outcome, limit) ==
    LET w == CHOOSE v \in 1..Len(s.workers[p]) : s.workers[p][v] = k
        settled == WithCatch(s.childPages[p][k], outcome)
    IN IF settled.ok
       THEN WorkerLoop([s EXCEPT !.results[p] = WriteResult(@, k - 1, settled.value)],
                       p, w, limit)
       ELSE \* the await throws: the worker rejects, and so does Promise.all
            LET s1 == [s EXCEPT !.workers[p][w] = 0]
            IN IF s1.pc[p] = "fanout" THEN Reject(s1, p, settled.message, limit) ELSE s1

\* Call p returns node.
Return(s, p, node, limit) ==
    LET s1 == [s EXCEPT !.pc[p] = "returned", !.ret[p] = node]
    IN IF p = Root THEN s1 ELSE ChildSettled(s1, Parent(p), Last(p), Fulfilled(node), limit)

\* The call catches its own error and returns an error node.
RejectCaughtInside(s, p, message, limit) ==
    Return(s, p, PageNode(PageIdOf(s, p), NoTitle, ErrorContent(message), <<>>), limit)

\* Call p throws an error with the given message.
Reject(s, p, message, limit) ==
    LET s1 == [s EXCEPT !.pc[p] = "failed", !.err[p] = message]
    IN IF p = Root THEN s1 ELSE ChildSettled(s1, Parent(p), Last(p), Rejected(message), limit)

RECURSIVE StartWorkers(_, _, _, _, _)
\* Array.from({length}, () => worker()): the workers start one after the other,
\* each running to its first await.
StartWorkers(s, p, w, count, limit) ==
    IF w > count THEN s ELSE StartWorkers(WorkerLoop(s, p, w, limit), p, w + 1, count, limit)

\* parallelMap(childPages, fn, concurrency) is called by call p.
ParallelMap(s, p, limit) ==
    LET n == Len(s.childPages[p])
        count == NumWorkers(limit, n)
        s1 == [s EXCEPT !.pc[p] = "fanout",
                        !.results[p] = [k \in 1..n |-> Hole],
                        !.idx[p] = 0,
                        !.workers[p] = [w \in 1..count |-> 0]]
    IN IF count = 0
       THEN \* Promise.all([]) resolves at once
            Return(s1, p, PageNode(s1.page[p].id, s1.page[p].title,
                                   PageContent(s1.page[p]), s1.results[p]), limit)
       ELSE StartWorkers(s1, p, 1, count, limit)
(***************************************************************************)
(* The server process: start-up (index.ts main) and tool calls             *)
(***************************************************************************)
\* Tool calls the client makes in one run.
MaxCalls == 2

\* process.env[name]: undefined, or a string (sequence of characters).
Undefined == [defined |-> FALSE, chars |-> <<>>]
Str(cs) == [defined |-> TRUE, chars |-> cs]

EnvNames == {"CONFLUENCE_TOKEN", "CONFLUENCE_EMAIL", "CONFLUENCE_CLOUD_ID", "CONFLUENCE_BASE_URL"}

\* The values the environment may give each variable.
EnvValues(name) ==
    CASE name = "CONFLUENCE_TOKEN"    -> {Undefined, Str(<<>>), Str(<<" ">>), Str(<<"t", "k">>)}
      [] name = "CONFLUENCE_EMAIL"    -> {Undefined, Str(<<" ", " ">>), Str(<<"m">>)}
      [] name = "CONFLUENCE_CLOUD_ID" -> {Undefined, Str(<<" ">>), Str(<<" ", "c", " ">>)}
      [] name = "CONFLUENCE_BASE_URL" -> {Undefined, Str(<<"https://", "h", " ">>), Str(<<"h">>)}

Whitespace == {" "}

RECURSIVE TrimStart(_)
TrimStart(cs) == IF cs # <<>> /\ Head(cs) \in Whitespace THEN TrimStart(Tail(cs)) ELSE cs

RECURSIVE TrimEnd(_)
TrimEnd(cs) ==
    IF cs # <<>> /\ cs[Len(cs)] \in Whitespace THEN TrimEnd(SubSeq(cs, 1, Len(cs) - 1)) ELSE cs

\* String.prototype.trim
Trim(cs) == TrimEnd(TrimStart(cs))

\* getEnv(name): the trimmed value, undefined when unset or blank.
GetEnvUntrimmed(e, name) ==
    IF e[name].defined /\ Len(e[name].chars) > 0 THEN e[name] ELSE Undefined
GetEnv(e, name) ==
    IF e[name].defined /\ Len(Trim(e[name].chars)) > 0 THEN Str(Trim(e[name].chars)) ELSE Undefined

\* validateEnvironment: the errors it collects (it exits with code 1 when there are any).
EnvErrors(e) ==
    (IF ~GetEnv(e, "CONFLUENCE_TOKEN").defined THEN {"CONFLUENCE_TOKEN is required"} ELSE {})
    \cup (IF ~GetEnv(e, "CONFLUENCE_EMAIL").defined THEN {"CONFLUENCE_EMAIL is required"} ELSE {})
    \cup (IF ~GetEnv(e, "CONFLUENCE_CLOUD_ID").defined /\ ~GetEnv(e, "CONFLUENCE_BASE_URL").defined
          THEN {"Either CONFLUENCE_CLOUD_ID or CONFLUENCE_BASE_URL must be set"} ELSE {})

\* buildBase(cfg): cloudId routing is preferred over the direct tenant URL.
buildBase(e) ==
    IF GetEnv(e, "CONFLUENCE_CLOUD_ID").defined
    THEN <<"https://", "api.atlassian.com/ex/confluence/">> \o GetEnv(e, "CONFLUENCE_CLOUD_ID").chars
    ELSE GetEnv(e, "CONFLUENCE_BASE_URL").chars

\* new URL(s) accepts s: it starts with a scheme and names a host.
IsAbsoluteUrl(cs) == Len(cs) >= 2 /\ cs[1] = "https://"

\* The probe of validateAuthentication settles with a response status or with
\* a network error.
NetworkError == 0
ProbeStatuses == {200, 401, 403, 404, 500}
ProbeOutcomes == ProbeStatuses \cup {NetworkError}
NoProbe == -1
\* res.ok
ResponseOk(status) == status >= 200 /\ status <= 299

NoExit == -1

\* ---- extractConfluencePageId (src/src/confluence/url.ts) ----
\* A URL string is a sequence of symbols: the scheme "https://", the
\* delimiters "/", "?", "&", "=", digits, letters and the words "pages",
\* "pageId", each standing for its characters.
Digits == {"0", "1", "2", "7"}

\* The least position >= from at which sym occurs in cs, Len(cs) + 1 if none.
IndexOf(cs, sym, from) ==
    LET hits == {i \in from..Len(cs) : cs[i] = sym}
    IN IF hits = {} THEN Len(cs) + 1 ELSE CHOOSE i \in hits : \A j \in hits : i <= j

RECURSIVE SplitOn(_, _)
\* cs.split(sep)
SplitOn(cs, sep) ==
    LET i == IndexOf(cs, sep, 1)
    IN IF i > Len(cs) THEN <<cs>>
       ELSE <<SubSeq(cs, 1, i - 1)>> \o SplitOn(SubSeq(cs, i + 1, Len(cs)), sep)

\* new URL(url): the parts the function reads, or a TypeError.
ParseUrl(url) ==
    LET rest == IF url = <<>> THEN <<>> ELSE Tail(url)
        q == IndexOf(rest, "?", 1)
        beforeQuery == SubSeq(rest, 1, q - 1)
        s == IndexOf(beforeQuery, "/", 1)
        host == SubSeq(beforeQuery, 1, s - 1)
    IN [ok |-> url # <<>> /\ Head(url) = "https://" /\ host # <<>>,
        pathname |-> IF s > Len(beforeQuery) THEN <<"/">>
                     ELSE SubSeq(beforeQuery, s, Len(beforeQuery)),
        search |-> SubSeq(rest, q + 1, Len(rest))]

\* The name and the value of one "name=value" of the query string.
ParamName(param) == SubSeq(param, 1, IndexOf(param, "=", 1) - 1)
ParamValue(param) == SubSeq(param, IndexOf(param, "=", 1) + 1, Len(param))

NoParam == <<>>
\* u.searchParams.get(name): the value of the first parameter of that name, null if none.
SearchParamsGet(search, name) ==
    LET params == IF search = <<>> THEN <<>> ELSE SplitOn(search, "&")
        hits == {i \in 1..Len(params) : ParamName(params[i]) = name}
    IN IF hits = {} THEN NoParam
       ELSE ParamValue(params[CHOOSE i \in hits : \A j \in hits : i <= j])

\* /^\d+$/.test(v)
IsDigitsOrAnything(v) == v # <<>>
IsDigits(v) == v # <<>> /\ \A i \in 1..Len(v) : v[i] \in Digits

\* u.pathname.match(/\/pages\/(\d+)(\/|$)/): the positions of the matching
\* "pages" segments (each followed by a segment of digits).
PagesMatches(pathname) ==
    LET segs == SplitOn(pathname, "/")
    IN {i \in 2..(Len(segs) - 1) : segs[i] = <<"pages">> /\ IsDigits(segs[i + 1])}

Ok(id) == [ok |-> TRUE, id |-> id, message |-> <<>>]
Thrown(message) == [ok |-> FALSE, id |-> <<>>, message |-> message]

\* catch (e) { throw new Error(`Invalid URL: ${e.message}`) }
InvalidUrl(inner) == Thrown(<<"Invalid URL: ", inner>>)

extractConfluencePageId(url) ==
    LET u == ParseUrl(url)
        pageId == SearchParamsGet(u.search, <<"pageId">>)
        m == PagesMatches(u.pathname)
        segs == SplitOn(u.pathname, "/")
    IN IF ~u.ok THEN InvalidUrl("Invalid URL")
       ELSE IF pageId # NoParam /\ IsDigits(pageId) THEN Ok(pageId)
       ELSE IF m # {} THEN Ok(segs[(CHOOSE i \in m : \A j \in m : i <= j) + 1])
       ELSE InvalidUrl("Unsupported Confluence URL format (no pageId found).")

\* The url arguments of the tool calls.
Urls ==
    { <<"https://", "h", "/", "w", "/", "pages", "/", "1", "2", "/", "T">>,
      <<"https://", "h", "/", "pages", "/", "v", "?", "pageId", "=", "7">>,
      <<"https://", "h", "/", "pages", "/", "7", "?", "x", "=", "1", "&", "pageId", "=", "2", "0">>,
      <<"https://", "h", "/", "pages", "/", "7", "?", "pageId", "=", "a">>,
      <<"https://", "h", "/", "pages", "/", "1", "a">>,
      <<"https://", "h", "/", "w", "?", "pageId", "=", "a", "&", "pageId", "=", "1">>,
      <<"https://", "h", "/", "w", "pages", "/", "1">>,
      <<"h", "/", "pages", "/", "1">>,
      <<>> }

\* extractConfluencePageId on each of these urls.
Extracted == [url \in Urls |-> extractConfluencePageId(url)]

\* ---- the tool handlers (src/src/index.ts) ----
ToolNames == {"confluence.fetch_page", "confluence.list_children",
              "confluence.fetch_image", "confluence.compare"}

NoRequest == "none"
\* The client function a handler awaits first, after extractConfluencePageId.
FirstRequest(tool) ==
    CASE tool = "confluence.fetch_page"    -> "fetchPageById"
      [] tool = "confluence.list_children" -> "fetchChildPages"
      [] tool = "confluence.fetch_image"   -> "fetchAttachments"
      [] tool = "confluence.compare"       -> "fetchPageById"

\* What a handler may await after the given client function returned
\* (fetch_image downloads only when an attachment of that name is listed).
NextRequests(tool, kind) ==
    CASE tool = "confluence.fetch_page" /\ kind = "fetchPageById"     -> {"fetchChildPages"}
      [] tool = "confluence.fetch_image" /\ kind = "fetchAttachments" -> {"downloadAttachment", NoRequest}
      [] OTHER -> {NoRequest}

\* One call of a tool: its arguments, its position and what it threw.
ToolCall(tool, url, pc, awaiting, pageId, error) ==
    [tool |-> tool, url |-> url, pc |-> pc, awaiting |-> awaiting, pageId |-> pageId, error |-> error]

SourceRequest(call, kind, pageId) == [call |-> call, kind |-> kind, pageId |-> pageId]

\* The handler up to its first await: the page id is extracted from the url
\* before anything is requested.
RequestBeforeExtract(n, tool, url) ==
    <<ToolCall(tool, url,
               IF Extracted[url].ok THEN "awaiting" ELSE "failed",
               IF Extracted[url].ok THEN FirstRequest(tool) ELSE NoRequest,
               Extracted[url].id, Extracted[url].message),
      <<SourceRequest(n, FirstRequest(tool), url)>>>>
StartHandler(n, tool, url) ==
    LET r == Extracted[url]
    IN IF r.ok
       THEN <<ToolCall(tool, url, "awaiting", FirstRequest(tool), r.id, <<>>),
              <<SourceRequest(n, FirstRequest(tool), r.id)>>>>
       ELSE <<ToolCall(tool, url, "failed", NoRequest, <<>>, r.message), <<>>>>

ServerOff ==
    /\ env = [name \in EnvNames |-> Undefined]
    /\ spc = "off"
    /\ probe = NoProbe
    /\ exitCode = NoExit
    /\ tcalls = <<>>
    /\ requests = <<>>

\* No listing is running.
ListOff ==
    /\ listSource = <<>>
    /\ lpc = "off"
    /\ allPages = <<>>
    /\ cursor = NoCursor
    /\ asked = <<>>

(***************************************************************************)
(* DiffSpec: one pair of texts, diffed and then counted.                   *)
(***************************************************************************)
NoStats == [additions |-> -1, deletions |-> -1, changes |-> -1]

\* The tree fetch is not running.
TreeOff ==
    /\ depth = 0
    /\ concurrency = 1
    /\ calls = IdleCalls
    /\ failures = {}

DiffInit ==
    /\ oldText \in TextsUpTo(MaxTextLen)
    /\ newText \in TextsUpTo(MaxTextLen - Len(oldText))
    /\ dpc = "input"
    /\ diffLines = <<>>
    /\ hunks = <<>>
    /\ output = <<>>
    /\ stats = NoStats
    /\ TreeOff
    /\ ServerOff
    /\ ListOff

\* generateUnifiedDiff(oldText, newText) with the default labels.
GenerateUnifiedDiff ==
    /\ dpc = "input"
    /\ diffLines' = EditScript(oldText, newText)
    /\ hunks' = GroupHunks(diffLines', contextLinesDefault)
    /\ output' = generateUnifiedDiff(oldText, newText, oldLabelDefault, newLabelDefault)
    /\ dpc' = "diffed"
    /\ UNCHANGED <<oldText, newText, stats, treeVars, serverVars, listVars>>

\* generateDiffStats(oldText, newText) on the same pair.
GenerateDiffStats ==
    /\ dpc = "diffed"
    /\ stats' = generateDiffStats(oldText, newText)
    /\ dpc' = "done"
    /\ UNCHANGED <<oldText, newText, diffLines, hunks, output, treeVars, serverVars, listVars>>

DiffNext == GenerateUnifiedDiff \/ GenerateDiffStats

DiffSpec == DiffInit /\ [][DiffNext]_vars

(***************************************************************************)
(* TreeSpec: one call fetchPageTree(cfg, RootId, depth, concurrency).      *)
(* Every action is one resumption of the event loop: the completion of a   *)
(* pending await together with everything that runs before the next await  *)
(* (promise reactions included), so a child's settlement carries through   *)
(* its parent's worker, and through the parent's return when it was the    *)
(* last one.                                                               *)
(***************************************************************************)
\* No diff is running.
DiffOff ==
    /\ oldText = <<>>
    /\ newText = <<>>
    /\ dpc = "off"
    /\ diffLines = <<>>
    /\ hunks = <<>>
    /\ output = <<>>
    /\ stats = NoStats

TreeInit ==
    /\ depth \in 0..MaxDepth
    /\ concurrency \in 1..MaxConcurrency
    /\ calls = StartCall(IdleCalls, Root)
    /\ failures = {}
    /\ DiffOff
    /\ ServerOff
    /\ ListOff

\* The depth argument of call p.
DepthOf(p) == depth - Len(p)

\* { id: page.id, title: page.title, content, children }
NodeOf(page, children) == PageNode(page.id, page.title, PageContent(page), children)

\* if (depth > 0): the children of the node are listed and fetched.
ExpandsAtDepthZero(d) == d >= 0
Expands(d) == d > 0

\* The dynamic import of call p resolves; fetchPageById sends its GET.
ImportResolved(p) ==
    /\ calls.pc[p] = "import"
    /\ calls' = [calls EXCEPT !.pc[p] = "fetchPage"]
    /\ UNCHANGED <<depth, concurrency, failures, diffVars, serverVars, listVars>>

\* The GET of fetchPageById of call p succeeds.
FetchPageOk(p) ==
    /\ calls.pc[p] = "fetchPage"
    /\ LET page == SourcePage(PageIdOf(calls, p))
           s1 == [calls EXCEPT !.page[p] = page]
       IN calls' = IF Expands(DepthOf(p))
                   THEN \* fetchChildPages sends its first GET
                        [s1 EXCEPT !.pc[p] = "listChildren",
                                   !.cursor[p] = NoCursor,
                                   !.childPages[p] = <<>>]
                   ELSE Return(s1, p, NodeOf(page, <<>>), concurrency)
    /\ UNCHANGED <<depth, concurrency, failures, diffVars, serverVars, listVars>>

\* The GET of fetchPageById of call p fails (non-OK status).
FetchPageFail(p) ==
    /\ calls.pc[p] = "fetchPage"
    /\ calls' = Reject(calls, p, ApiErrorMessage(ErrStatus(PageIdOf(calls, p))), concurrency)
    /\ failures' = failures \cup {<<p, "fetchPage">>}
    /\ UNCHANGED <<depth, concurrency, diffVars, serverVars, listVars>>

\* if (!data._links?.next) break; ... if (!cursor) break;
MorePagesNever(next) == FALSE
MorePagesOnAnyLink(next) == next.present
MorePages(next) == next.present /\ next.cursor # NoCursor

\* A GET of fetchChildPages of call p succeeds: its entries are appended and
\* either the next page is requested or the listing is complete and
\* parallelMap starts.
ListChildrenOk(p) ==
    /\ calls.pc[p] = "listChildren"
    /\ LET data == SourceChildren(PageIdOf(calls, p), calls.cursor[p])
           s1 == [calls EXCEPT !.childPages[p] = @ \o data.results]
       IN calls' = IF MorePages(data.next)
                   THEN [s1 EXCEPT !.cursor[p] = data.next.cursor]
                   ELSE ParallelMap(s1, p, concurrency)
    /\ UNCHANGED <<depth, concurrency, failures, diffVars, serverVars, listVars>>

\* A GET of fetchChildPages of call p fails.
ListChildrenFailEndsListing(p) ==
    /\ calls.pc[p] = "listChildren"
    /\ calls' = ParallelMap(calls, p, concurrency)
    /\ failures' = failures \cup {<<p, "listChildren">>}
    /\ UNCHANGED <<depth, concurrency, diffVars, serverVars, listVars>>
ListChildrenFail(p) ==
    /\ calls.pc[p] = "listChildren"
    /\ calls' = Reject(calls, p, ApiErrorMessage(ErrStatus(PageIdOf(calls, p))), concurrency)
    /\ failures' = failures \cup {<<p, "listChildren">>}
    /\ UNCHANGED <<depth, concurrency, diffVars, serverVars, listVars>>

TreeNext ==
    \E p \in Paths :
        \/ ImportResolved(p)
        \/ FetchPageOk(p)
        \/ FetchPageFail(p)
        \/ ListChildrenOk(p)
        \/ ListChildrenFail(p)

TreeSpec == TreeInit /\ [][TreeNext]_vars

\* The same call when every request that is pending is eventually answered:
\* a pending await of call p stays pending until its own completion runs
\* (no other action changes pc[p] of a call that waits for the source), so
\* answering every request implies that a step is taken as long as one is
\* possible.
TreeFairSpec == TreeSpec /\ WF_vars(TreeNext)

(***************************************************************************)
(* ServerSpec: the process from main() to the tool calls it serves         *)
(***************************************************************************)
ServerInit ==
    /\ env \in [EnvNames -> UNION {EnvValues(name) : name \in EnvNames}]
    /\ \A name \in EnvNames : env[name] \in EnvValues(name)
    /\ spc = "start"
    /\ probe = NoProbe
    /\ exitCode = NoExit
    /\ tcalls = <<>>
    /\ requests = <<>>
    /\ DiffOff
    /\ TreeOff
    /\ ListOff

\* process.exit(1)
Exit ==
    /\ spc' = "exited"
    /\ exitCode' = 1

\* main() up to its first await: validateEnvironment, then
\* validateAuthentication builds the probe URL and sends the probe.
Main ==
    /\ spc = "start"
    /\ IF EnvErrors(env) # {} THEN Exit
       ELSE IF ~IsAbsoluteUrl(buildBase(env)) THEN Exit
       ELSE spc' = "probing" /\ exitCode' = exitCode
    /\ UNCHANGED <<env, probe, tcalls, requests, diffVars, treeVars, listVars>>

\* The probe ends the process: 401, 403, another non-OK status, or no response.
ProbeFails(outcome) ==
    \/ outcome = NetworkError
    \/ outcome = 401
    \/ outcome = 403
    \/ ~ResponseOk(outcome)

\* The probe settles; on success main connects the stdio transport.
ProbeSettled ==
    /\ spc = "probing"
    /\ \E outcome \in ProbeOutcomes :
          /\ probe' = outcome
          /\ IF ProbeFails(outcome) THEN Exit
             ELSE spc' = "serving" /\ exitCode' = exitCode
    /\ UNCHANGED <<env, tcalls, requests, diffVars, treeVars, listVars>>

\* The call now running, if any.
Running == tcalls # <<>> /\ tcalls[Len(tcalls)].pc = "awaiting"

\* The client calls a tool over the connected transport.
CallTool ==
    /\ spc = "serving"
    /\ ~Running
    /\ Len(tcalls) < MaxCalls
    /\ \E tool \in ToolNames, url \in Urls :
          LET started == StartHandler(Len(tcalls) + 1, tool, url)
          IN /\ tcalls' = Append(tcalls, started[1])
             /\ requests' = requests \o started[2]
    /\ UNCHANGED <<env, spc, probe, exitCode, diffVars, treeVars, listVars>>

\* The awaited client function of the running call returns.
RequestOk ==
    /\ Running
    /\ LET n == Len(tcalls)
           c == tcalls[n]
       IN \E nxt \in NextRequests(c.tool, c.awaiting) :
             IF nxt = NoRequest
             THEN /\ tcalls' = [tcalls EXCEPT ![n].pc = "done", ![n].awaiting = NoRequest]
                  /\ requests' = requests
             ELSE /\ tcalls' = [tcalls EXCEPT ![n].awaiting = nxt]
                  /\ requests' = Append(requests, SourceRequest(n, nxt, c.pageId))
    /\ UNCHANGED <<env, spc, probe, exitCode, diffVars, treeVars, listVars>>

\* The awaited client function of the running call throws.
RequestFail ==
    /\ Running
    /\ LET n == Len(tcalls)
       IN tcalls' = [tcalls EXCEPT ![n].pc = "failed", ![n].awaiting = NoRequest,
                                   ![n].error = <<"Confluence API error">>]
    /\ UNCHANGED <<env, spc, probe, exitCode, requests, diffVars, treeVars, listVars>>

ServerNext == Main \/ ProbeSettled \/ CallTool \/ RequestOk \/ RequestFail

ServerSpec == ServerInit /\ [][ServerNext]_vars

(***************************************************************************)
(* ListSpec: one call fetchChildPages(cfg, pageId)                         *)
(***************************************************************************)
\* The call runs to its first await: the GET of the first page, sent
\* without a cursor parameter.
ListInit ==
    /\ listSource \in ListSources
    /\ lpc = "request"
    /\ allPages = <<>>
    /\ cursor = NoCursor
    /\ asked = <<NoCursor>>
    /\ DiffOff
    /\ TreeOff
    /\ ServerOff

\* The pending GET answers with an OK status: its entries are pushed and the
\* loop either breaks and returns all, or sends the GET of the next page.
ListResponseOk ==
    /\ lpc = "request"
    /\ LET data == AnswerTo(listSource, cursor)
           next == NextOf(data, cursor)
       IN /\ data.ok
          /\ allPages' = allPages \o data.results
          /\ IF MorePages(next)
             THEN /\ Len(asked) < MaxRequests
                  /\ cursor' = next.cursor
                  /\ asked' = Append(asked, next.cursor)
                  /\ lpc' = "request"
             ELSE /\ lpc' = "returned"
                  /\ UNCHANGED <<cursor, asked>>
    /\ UNCHANGED <<listSource, diffVars, treeVars, serverVars>>

\* The pending GET answers with a non-OK status: the call throws.
ListResponseFail ==
    /\ lpc = "request"
    /\ ~AnswerTo(listSource, cursor).ok
    /\ lpc' = "failed"
    /\ UNCHANGED <<listSource, allPages, cursor, asked, diffVars, treeVars, serverVars>>

ListNext == ListResponseOk \/ ListResponseFail

ListSpec == ListInit /\ [][ListNext]_vars

(***************************************************************************)
(* Properties of the diff (checked under DiffSpec)                         *)
(***************************************************************************)
Diffed == dpc \in {"diffed", "done"}

RECURSIVE LinesOf(_, _)
\* The lines of the DiffLines of dls whose type is in types, in order.
LinesOf(dls, types) ==
    IF dls = <<>> THEN <<>>
    ELSE (IF Head(dls).type \in types THEN <<Head(dls).line>> ELSE <<>>)
         \o LinesOf(Tail(dls), types)

ChangePositions == {k \in 1..Len(diffLines) : diffLines[k].type # "context"}
InHunk(h, pos) == \E k \in 1..Len(hunks[h]) : hunks[h][k] = pos
Occurrences(pos) ==
    Cardinality({hk \in (1..Len(hunks)) \X (1..Len(diffLines)) :
                    hk[2] <= Len(hunks[hk[1]]) /\ hunks[hk[1]][hk[2]] = pos})

\* C1: whenever the diff of the two texts has no hunk (in particular for
\* identical texts) the returned text is the two header lines followed by the
\* "(no differences)" sentinel, never the header lines alone.
C1_SentinelWhenNoHunk ==
    (Diffed /\ Len(hunks) = 0) =>
        /\ Len(output) >= 3
        /\ output[1] = OldHeader(oldLabelDefault)
        /\ output[2] = NewHeader(newLabelDefault)
        /\ output[3] = Sentinel

\* C2: no position of the edit script is in two hunks, and the hunks come in
\* strictly ascending position order.
C2_HunksDisjointAscending ==
    Diffed =>
        \A h1, h2 \in 1..Len(hunks) : h1 < h2 =>
            \A k1 \in 1..Len(hunks[h1]), k2 \in 1..Len(hunks[h2]) :
                hunks[h1][k1] < hunks[h2][k2]

\* C3: the edit script reconstructs both inputs: its context and remove lines
\* in order are the old line sequence, its context and add lines in order are
\* the new one (so every DiffLine carries a line of old or of new).
C3_ScriptReconstructsInputs ==
    Diffed =>
        /\ LinesOf(diffLines, {"context", "remove"}) = Split(oldText)
        /\ LinesOf(diffLines, {"context", "add"}) = Split(newText)

C3_Witness ==
    /\ dpc = "diffed"
    /\ \E i, j, k \in 1..Len(diffLines) :
          /\ diffLines[i].type = "add"
          /\ diffLines[j].type = "remove"
          /\ diffLines[k].type = "context"

\* A run of more than contextLines context lines lies strictly between i and j.
LongContextRunBetween(i, j) ==
    \E s \in (i + 1)..(j - 1) :
        /\ s + contextLinesDefault <= j - 1
        /\ \A k \in s..(s + contextLinesDefault) : diffLines[k].type = "context"

\* C4: two changed lines with a run of more than contextLines unchanged lines
\* between them are in different hunks; two consecutive changed lines with
\* contextLines or fewer unchanged lines between them are in the same hunk.
C4_HunkSeparation ==
    Diffed =>
        \A i, j \in ChangePositions : i < j =>
            /\ LongContextRunBetween(i, j) =>
                  ~ \E h \in 1..Len(hunks) : InHunk(h, i) /\ InHunk(h, j)
            /\ ( /\ \A k \in (i + 1)..(j - 1) : diffLines[k].type = "context"
                 /\ j - i - 1 <= contextLinesDefault )
                  => \E h \in 1..Len(hunks) : InHunk(h, i) /\ InHunk(h, j)

C4_Witness ==
    /\ Diffed
    /\ \E i, j \in ChangePositions :
          /\ j = i + contextLinesDefault + 2
          /\ LongContextRunBetween(i, j)
          /\ \E h1, h2 \in 1..Len(hunks) : h1 # h2 /\ InHunk(h1, i) /\ InHunk(h2, j)

RECURSIVE SumHunks(_, _)
\* The number of entries of the given type, summed over the hunks from h on.
SumHunks(h, type) ==
    IF h > Len(hunks) THEN 0
    ELSE Cardinality({k \in 1..Len(hunks[h]) : diffLines[hunks[h][k]].type = type})
         + SumHunks(h + 1, type)

\* C5: the additions / deletions of generateDiffStats are the add / remove
\* lines summed over the hunks generateUnifiedDiff renders for the same pair:
\* every add or remove line is in exactly one hunk exactly once, and
\* changes = additions + deletions.
C5_StatsMatchHunks ==
    dpc = "done" =>
        /\ stats.additions = SumHunks(1, "add")
        /\ stats.deletions = SumHunks(1, "remove")
        /\ stats.changes = stats.additions + stats.deletions
        /\ \A pos \in ChangePositions : Occurrences(pos) = 1

C5_Witness ==
    /\ dpc = "done"
    /\ Len(hunks) >= 2
    /\ stats.additions > 0
    /\ stats.deletions > 0
    /\ \E k \in 1..Len(diffLines) : diffLines[k].type = "context"

\* C6: for identical texts, the empty text included (one empty line), the
\* statistics are additions = 0, deletions = 0, changes = 0.
C6_IdenticalTextsZeroStats ==
    /\ (Diffed /\ oldText = <<>> /\ newText = <<>>) =>
          diffLines = <<DiffLine("context", <<>>, 1, 1)>>
    /\ (dpc = "done" /\ oldText = newText) =>
          stats = [additions |-> 0, deletions |-> 0, changes |-> 0]

C6_Witness == dpc = "done" /\ oldText = newText /\ oldText = <<>>

(***************************************************************************)
(* Properties of the tree fetch (checked under TreeSpec)                   *)
(***************************************************************************)
\* Call p has been made and has neither returned nor failed.
InProgress(p) == calls.pc[p] \in {"import", "fetchPage", "listChildren", "fanout"}
\* A request or import of call p is pending.
Pending(p) == calls.pc[p] \in {"import", "fetchPage", "listChildren"}
\* Nothing is pending any more: the root call has run to its end.
Quiescent == \A p \in Paths : ~Pending(p)

ChildCalls(p) == {c \in Paths : Len(c) = Len(p) + 1 /\ Parent(c) = p}
OwnFailure(p) == <<p, "fetchPage">> \in failures \/ <<p, "listChildren">> \in failures

\* A stub: error-marked content and no children.
IsStub(node) ==
    /\ node.children = <<>>
    /\ Len(node.content) > 0
    /\ Head(node.content) = "[Error fetching page: "

\* The slot the parent of call p keeps for it.
SlotOf(p) == calls.results[Parent(p)][Last(p)]

\* C7 (as claimed): the root call fails only if fetchPageById on the root id
\* failed; whatever else fails, the call returns a tree.
C7_FailsOnlyOnRootFetch ==
    /\ calls.pc[Root] = "failed" => <<Root, "fetchPage">> \in failures
    /\ (Quiescent /\ <<Root, "fetchPage">> \notin failures) => calls.pc[Root] = "returned"

\* C7 (amended): the root call fails only if one of its own source requests
\* failed, fetchPageById on the root id or a page of the root's own child
\* listing; a failure of a request made for a node below the root makes that
\* node a stub in its parent's results, and the root call still returns a tree.
C7_FailsOnlyOnRootRequests ==
    /\ calls.pc[Root] = "failed" => OwnFailure(Root)
    /\ (Quiescent /\ ~OwnFailure(Root)) => calls.pc[Root] = "returned"
    /\ \A p \in Paths \ {Root} :
          OwnFailure(p) => (calls.pc[p] = "failed" /\ IsStub(SlotOf(p)))
    /\ \A p \in Paths \ {Root} : calls.pc[p] = "failed" => OwnFailure(p)

C7_Witness ==
    /\ calls.pc[Root] = "returned"
    /\ \E p \in Paths : Len(p) = 1 /\ <<p, "listChildren">> \in failures
    /\ \E p \in Paths : Len(p) = 2 /\ <<p, "fetchPage">> \in failures

\* C8: a returned node that was expanded has one child per listing entry;
\* the child of an entry whose fetch failed is a stub with the entry's id and
\* title, error-marked content and no children, and every other child carries
\* the content its own fetch returned.
C8_FailedChildrenAreStubs ==
    \A p \in Paths : (calls.pc[p] = "returned" /\ DepthOf(p) > 0) =>
        LET listing == FullListing(PageIdOf(calls, p))
            node == calls.ret[p]
        IN /\ Len(node.children) = Len(listing)
           /\ \A k \in 1..Len(listing) :
                 LET c == Child(p, k) IN
                 IF calls.pc[c] = "failed"
                 THEN /\ node.children[k].id = listing[k].id
                      /\ node.children[k].title = listing[k].title
                      /\ IsStub(node.children[k])
                 ELSE /\ calls.pc[c] = "returned"
                      /\ calls.page[c] = SourcePage(listing[k].id)
                      /\ node.children[k].content = PageContent(calls.page[c])
                      /\ ~IsStub(node.children[k])

\* Root R with children [A, B, C], concurrency 2, the fetch of B failing.
C8_Witness ==
    /\ concurrency = 2
    /\ calls.pc[Root] = "returned"
    /\ Len(calls.ret[Root].children) = 3
    /\ calls.pc[<<1>>] = "returned"
    /\ calls.pc[<<2>>] = "failed"
    /\ calls.pc[<<3>>] = "returned"

\* C9: the result slots of an expanded node are one per listed child, and
\* slot k, once written, holds the node (real or stub) produced for the k-th
\* entry of the listing, whatever the order of completion; the returned
\* children are these slots, none left empty.
C9_ChildrenInListingOrder ==
    \A p \in Paths : (calls.pc[p] \in {"fanout", "returned"} /\ DepthOf(p) > 0) =>
        LET listing == FullListing(PageIdOf(calls, p))
            slots == calls.results[p]
        IN /\ Len(slots) = Len(listing)
           /\ \A k \in 1..Len(listing) :
                 LET c == Child(p, k) IN
                 /\ (slots[k] # Hole) = (calls.pc[c] \in {"returned", "failed"})
                 /\ slots[k] # Hole => slots[k].id = listing[k].id
                 /\ calls.pc[c] = "returned" => slots[k] = calls.ret[c]
           /\ calls.pc[p] = "returned" =>
                 /\ calls.ret[p].children = slots
                 /\ \A k \in 1..Len(slots) : slots[k] # Hole

\* The second child has completed before the first.
C9_Witness ==
    /\ calls.pc[Root] = "fanout"
    /\ Len(calls.results[Root]) = 3
    /\ calls.results[Root][1] = Hole
    /\ calls.results[Root][2] # Hole

\* C10: at any moment the number of child calls of one node that are in
\* progress is at most min(concurrency, number of listed children).
C10_FanOutBounded ==
    \A p \in Paths :
        Cardinality({c \in ChildCalls(p) : InProgress(c)})
            <= Min(concurrency, Len(calls.childPages[p]))

C10_Witness ==
    /\ concurrency = 2
    /\ Len(calls.childPages[Root]) = 3
    /\ calls.pc[Root] = "fanout"
    /\ Cardinality({c \in ChildCalls(Root) : InProgress(c)}) = 2
    /\ calls.idx[Root] = 3

RECURSIVE TreeDepth(_)
\* The number of levels below the root of a tree.
TreeDepth(node) ==
    IF node.children = <<>> THEN 0
    ELSE LET ds == {TreeDepth(node.children[k]) : k \in 1..Len(node.children)}
         IN 1 + CHOOSE d \in ds : \A e \in ds : e <= d

\* A request of call p is in flight at the source.
InFlight(p) == calls.pc[p] \in {"fetchPage", "listChildren"}

\* C11: the returned tree has depth at most the depth bound; a node reached
\* with remaining depth 0 never lists its children and is returned with an
\* empty child sequence whatever the source lists for it; no call is made,
\* hence no request sent, for anything below such a node (with depth 0 the
\* only request is the root's page fetch).
C11_DepthBounded ==
    /\ calls.pc[Root] = "returned" => TreeDepth(calls.ret[Root]) <= depth
    /\ \A p \in Paths :
          /\ Len(p) > depth => calls.pc[p] = "idle"
          /\ DepthOf(p) = 0 =>
                /\ calls.pc[p] \notin {"listChildren", "fanout"}
                /\ calls.childPages[p] = <<>>
                /\ calls.pc[p] = "returned" => calls.ret[p].children = <<>>
    /\ depth = 0 => \A p \in Paths : InFlight(p) => (p = Root /\ calls.pc[p] = "fetchPage")

\* A node below the root is returned childless although the source lists children for it.
C11_Witness ==
    /\ calls.pc[Root] = "returned"
    /\ depth > 0
    /\ TreeDepth(calls.ret[Root]) = depth
    /\ \E p \in Paths :
          /\ DepthOf(p) = 0
          /\ calls.pc[p] = "returned"
          /\ FullListing(PageIdOf(calls, p)) # <<>>
          /\ calls.ret[p].children = <<>>

\* fetchPageById of the root call threw.
RootFetchFailed == <<Root, "fetchPage">> \in failures

\* C12: when the root's fetchPageById fails, fetchPageTree fails with that
\* error and returns no tree; no child listing is requested and no child is
\* fetched, then or later.
C12_RootFetchFailureIsFatal ==
    RootFetchFailed =>
        /\ calls.pc[Root] = "failed"
        /\ calls.err[Root] = <<"Confluence API error", ErrStatus(RootId)>>
        /\ calls.ret[Root] = Hole
        /\ calls.childPages[Root] = <<>>
        /\ \A p \in Paths \ {Root} : calls.pc[p] = "idle"
        /\ failures = {<<Root, "fetchPage">>}

\* The root's page fetch failed in a run that would have expanded the root.
C12_Witness ==
    /\ RootFetchFailed
    /\ depth > 0
    /\ FullListing(RootId) # <<>>

\* The two texts have the same number of lines and differ in line k only,
\* and neither line k of old nor line k of new occurs elsewhere in either text.
SingleSubstitution(k) ==
    LET old == Split(oldText)
        new == Split(newText)
    IN /\ Len(old) = Len(new)
       /\ k \in 1..Len(old)
       /\ old[k] # new[k]
       /\ \A i \in 1..Len(old) : i # k => old[i] = new[i] /\ old[i] # old[k] /\ old[i] # new[k]

\* The type and line of each DiffLine of the edit script.
TypedLines == [i \in 1..Len(diffLines) |-> <<diffLines[i].type, diffLines[i].line>>]

\* C13: texts of equal length that differ in one line k, unique on both
\* sides, give one hunk whose only changed lines are remove old[k] directly
\* followed by add new[k], every other line of the hunk being context, and
\* the stats are additions = 1, deletions = 1, changes = 2.
C13_SingleSubstitution ==
    \A k \in 1..(MaxTextLen + 1) :
        (Diffed /\ SingleSubstitution(k)) =>
            LET old == Split(oldText)
                new == Split(newText)
                bodies == [i \in 1..(Len(output) - 3) |-> output[i + 3]]
            IN /\ TypedLines = [i \in 1..(Len(old) + 1) |->
                                   IF i < k THEN <<"context", old[i]>>
                                   ELSE IF i = k THEN <<"remove", old[k]>>
                                   ELSE IF i = k + 1 THEN <<"add", new[k]>>
                                   ELSE <<"context", old[i - 1]>>]
               /\ Len(hunks) = 1
               /\ InHunk(1, k) /\ InHunk(1, k + 1)
               /\ Len(output) = 3 + Len(hunks[1])
               /\ output[3].kind = "@@"
               /\ \E j \in 1..(Len(bodies) - 1) :
                     /\ bodies[j] = [kind |-> "-", text |-> old[k]]
                     /\ bodies[j + 1] = [kind |-> "+", text |-> new[k]]
                     /\ \A i \in 1..Len(bodies) : i \notin {j, j + 1} => bodies[i].kind = " "
               /\ dpc = "done" =>
                     stats = [additions |-> 1, deletions |-> 1, changes |-> 2]

\* The middle line of three is replaced and both results were computed.
C13_Witness ==
    /\ dpc = "done"
    /\ SingleSubstitution(2)
    /\ Len(Split(oldText)) = 3

RECURSIVE HeaderPos(_)
\* The position in the rendered text of the header of hunk h.
HeaderPos(h) == IF h = 1 THEN 3 ELSE HeaderPos(h - 1) + 1 + Len(hunks[h - 1])

\* The number of DiffLines of the given types among the first q of the script:
\* the 1-based position, in the old (new) text, of a non-add (non-remove) line q.
PosAmong(q, types) == Cardinality({i \in 1..q : diffLines[i].type \in types})

\* The least element of a non-empty set of numbers.
Least(S) == CHOOSE x \in S : \A y \in S : x <= y

\* C14: the header of every rendered hunk agrees with the hunk's body: the
\* counts are the numbers of context + remove and of context + add lines, the
\* starts are the 1-based positions in old and in new of the hunk's first
\* context/remove and first context/add line, also for a hunk that begins
\* with an add or a remove.
C14_HeaderMatchesBody ==
    Diffed =>
        \A h \in 1..Len(hunks) :
            LET hk == hunks[h]
                hdr == output[HeaderPos(h)]
                oldIdx == {k \in 1..Len(hk) : diffLines[hk[k]].type \in {"context", "remove"}}
                newIdx == {k \in 1..Len(hk) : diffLines[hk[k]].type \in {"context", "add"}}
            IN /\ hdr.kind = "@@"
               /\ \A k \in 1..Len(hk) :
                     /\ output[HeaderPos(h) + k].text = diffLines[hk[k]].line
                     /\ output[HeaderPos(h) + k].kind = " " <=> diffLines[hk[k]].type = "context"
                     /\ output[HeaderPos(h) + k].kind = "+" <=> diffLines[hk[k]].type = "add"
                     /\ output[HeaderPos(h) + k].kind = "-" <=> diffLines[hk[k]].type = "remove"
               /\ hdr.oldCount = Cardinality(oldIdx)
               /\ hdr.newCount = Cardinality(newIdx)
               /\ oldIdx # {} /\ newIdx # {}
               /\ hdr.oldStart = PosAmong(hk[Least(oldIdx)], {"context", "remove"})
               /\ hdr.newStart = PosAmong(hk[Least(newIdx)], {"context", "add"})
               /\ Split(oldText)[hdr.oldStart] = diffLines[hk[Least(oldIdx)]].line
               /\ Split(newText)[hdr.newStart] = diffLines[hk[Least(newIdx)]].line

\* The first hunk begins with an add and a second hunk starts further down.
C14_Witness ==
    /\ Diffed
    /\ Len(hunks) >= 2
    /\ diffLines[hunks[1][1]].type = "add"
    /\ output[HeaderPos(2)].oldStart > 1

\* The listing entry for which call p was made.
EntryOf(p) == FullListing(PageIdOf(calls, Parent(p)))[Last(p)]

\* The message of the error thrown by a failed request for page id.
CaughtMessage(id) == <<"Confluence API error", ErrStatus(id)>>

\* The node kept for every failed child call is the stub with this marker.
StubsAre(marker) ==
    \A p \in Paths \ {Root} : calls.pc[p] = "failed" =>
        /\ calls.err[p] = CaughtMessage(EntryOf(p).id)
        /\ SlotOf(p) = [id |-> EntryOf(p).id,
                        title |-> EntryOf(p).title,
                        content |-> <<marker>> \o calls.err[p] \o <<"]">>,
                        children |-> <<>>]

\* C15 (as claimed): the stub of a failed child is {id: child.id, title:
\* child.title, content: "[error: <message>]", children: []}.
C15_StubContentAsClaimed == StubsAre("[error: ")

\* C15 (amended): the stub of a failed child is {id: child.id, title:
\* child.title, content: "[Error fetching page: <message>]", children: []},
\* child being the listing entry and <message> the caught error's message.
C15_StubExact == StubsAre("[Error fetching page: ")

\* Two children of the root failed with different errors; the tree is returned.
C15_Witness ==
    /\ calls.pc[Root] = "returned"
    /\ calls.pc[<<1>>] = "failed"
    /\ calls.pc[<<2>>] = "failed"
    /\ calls.err[<<1>>] # calls.err[<<2>>]
    /\ calls.ret[Root].children[1] = SlotOf(<<1>>)
    /\ calls.ret[Root].children[2] = SlotOf(<<2>>)

\* The variable is set to a value that is not blank.
NonBlank(name) ==
    /\ env[name].defined
    /\ \E i \in 1..Len(env[name].chars) : env[name].chars[i] # " "

\* What validateEnvironment requires of the environment.
EnvironmentComplete ==
    /\ NonBlank("CONFLUENCE_TOKEN")
    /\ NonBlank("CONFLUENCE_EMAIL")
    /\ NonBlank("CONFLUENCE_CLOUD_ID") \/ NonBlank("CONFLUENCE_BASE_URL")

\* The stdio transport is connected: the server can be called.
Connected == spc = "serving"

\* C16: the transport is connected (and tool calls are served) only after
\* validateEnvironment found the token, the email and one of cloud id / base
\* URL non-blank and the probe of validateAuthentication got a successful
\* response; when a variable is missing or blank, or the probe got 401, 403,
\* another non-OK status or no response, the process has exited with code 1
\* once main is past that check, and it never connects.
C16_ConnectsOnlyAfterValidation ==
    /\ Connected => (EnvironmentComplete /\ probe \in 200..299 /\ exitCode = NoExit)
    /\ tcalls # <<>> => Connected
    /\ requests # <<>> => Connected
    /\ (~EnvironmentComplete /\ spc # "start") => (spc = "exited" /\ exitCode = 1)
    /\ (probe # NoProbe /\ probe \notin 200..299) => (spc = "exited" /\ exitCode = 1)
    /\ spc = "exited" =>
          (exitCode = 1 /\ (~EnvironmentComplete \/ probe \notin 200..299))
    /\ spc \in {"start", "probing", "serving", "exited"}
    /\ spc = "probing" => (EnvironmentComplete /\ probe = NoProbe)

\* The server connected on the base URL alone, the cloud id being blank, and
\* served a call.
C16_Witness ==
    /\ Connected
    /\ ~NonBlank("CONFLUENCE_CLOUD_ID")
    /\ env["CONFLUENCE_CLOUD_ID"].defined
    /\ probe = 200
    /\ tcalls # <<>>

\* The symbols of url from position i up to the next delimiter.
RunFrom(url, i) ==
    LET stops == {j \in i..Len(url) : url[j] \in {"/", "?", "&", "="}}
        stop == IF stops = {} THEN Len(url) + 1 ELSE CHOOSE j \in stops : \A k \in stops : j <= k
    IN SubSeq(url, i, stop - 1)

AllDigits(run) == run # <<>> /\ \A i \in 1..Len(run) : run[i] \in {"0", "1", "2", "7"}

\* The url is no absolute URL.
Unparsable(url) == url = <<>> \/ url[1] # "https://"

\* Some query parameter of the url is pageId=<digits>.
HasNumericPageIdParam(url) ==
    \E i \in 2..(Len(url) - 2) :
        /\ url[i - 1] \in {"?", "&"}
        /\ url[i] = "pageId" /\ url[i + 1] = "="
        /\ AllDigits(RunFrom(url, i + 2))

\* The path of the url has a segment "pages" followed by a segment of digits.
HasPagesDigitsSegment(url) ==
    \E i \in 2..(Len(url) - 2) :
        /\ \A j \in 1..i : url[j] # "?"
        /\ url[i - 1] = "/" /\ url[i] = "pages" /\ url[i + 1] = "/"
        /\ AllDigits(RunFrom(url, i + 2))
        /\ i + 2 + Len(RunFrom(url, i + 2)) <= Len(url) =>
               url[i + 2 + Len(RunFrom(url, i + 2))] \in {"/", "?"}

\* The urls that are no URL or have neither a numeric pageId parameter nor a
\* /pages/<digits> segment.
UrlsWithoutPageId ==
    {url \in Urls : Unparsable(url) \/ (~HasNumericPageIdParam(url) /\ ~HasPagesDigitsSegment(url))}

\* The requests the handlers sent for tool call n.
RequestsOf(n) == {i \in 1..Len(requests) : requests[i].call = n}

\* C17: a tool call (of any of the four tools) whose url yields no page id,
\* because it is no URL or has neither a numeric pageId parameter nor a
\* /pages/<digits> segment, fails with the error of extractConfluencePageId
\* and no request is sent to the content source for it, then or later; a
\* call whose url yields an id does send its first request for that id.
C17_NoPageIdNoRequest ==
    \A n \in 1..Len(tcalls) :
        LET c == tcalls[n]
            r == Extracted[c.url]
        IN /\ c.url \in UrlsWithoutPageId => ~r.ok
           /\ ~r.ok =>
                 /\ c.pc = "failed"
                 /\ c.error = r.message
                 /\ Head(c.error) = "Invalid URL: "
                 /\ RequestsOf(n) = {}
           /\ r.ok =>
                 /\ RequestsOf(n) # {}
                 /\ \A i \in RequestsOf(n) : requests[i].pageId = r.id

\* A call with a well-formed URL that names no page failed without a request;
\* the next call, of another tool, named a page and was served.
C17_Witness ==
    /\ Len(tcalls) = 2
    /\ ~Unparsable(tcalls[1].url)
    /\ ~Extracted[tcalls[1].url].ok
    /\ tcalls[1].pc = "failed"
    /\ tcalls[2].tool # tcalls[1].tool
    /\ tcalls[2].pc = "done"
    /\ RequestsOf(1) = {}
    /\ Cardinality(RequestsOf(2)) = 2

\* C18: a child of an expanded node is fetched only after every page of the
\* node's child listing was received: while the listing is being requested no
\* child call exists, and once one exists the node holds the whole ordered
\* listing of the source.
C18_ListingCompleteBeforeChildFetch ==
    \A p \in Paths :
        /\ calls.pc[p] \in {"import", "fetchPage", "listChildren"} =>
              \A c \in ChildCalls(p) : calls.pc[c] = "idle"
        /\ (\E c \in ChildCalls(p) : calls.pc[c] # "idle") =>
              /\ calls.pc[p] \in {"fanout", "returned"}
              /\ calls.childPages[p] = FullListing(PageIdOf(calls, p))
              /\ <<p, "listChildren">> \notin failures
        /\ calls.pc[p] = "fanout" =>
              calls.childPages[p] = FullListing(PageIdOf(calls, p))

\* The root's listing has two pages; the child listed on the second page is
\* being fetched while the first child is still in progress.
C18_Witness ==
    /\ Len(ListingPages[RootId]) = 2
    /\ calls.pc[Root] = "fanout"
    /\ calls.pc[<<1>>] \in {"import", "fetchPage", "listChildren", "fanout"}
    /\ calls.pc[<<3>>] = "fetchPage"

\* A page request of the child listing of call p failed.
ListingFailed(p) == <<p, "listChildren">> \in failures

\* The stub a parent keeps for the listing entry of call p when a request
\* made for the entry's page failed.
StubFor(p) ==
    LET entry == FullListing(PageIdOf(calls, Parent(p)))[Last(p)]
    IN [id |-> entry.id, title |-> entry.title,
        content |-> <<"[Error fetching page: ", "Confluence API error", ErrStatus(entry.id), "]">>,
        children |-> <<>>]

\* C19: when a page request of the listing of node X fails, on the first or
\* a later page, X below the root is kept by its parent as the stub a failed
\* content fetch of X gives (X's fetched content and the entries already
\* listed are dropped), every sibling of X is still processed and the parent
\* returns; at the root the call fails with the error, as for a failed root
\* content fetch.
C19_ListingFailureAsFetchFailure ==
    \A p \in Paths : ListingFailed(p) =>
        /\ calls.pc[p] = "failed"
        /\ calls.err[p] = <<"Confluence API error", ErrStatus(PageIdOf(calls, p))>>
        /\ calls.ret[p] = Hole
        /\ \A c \in ChildCalls(p) : calls.pc[c] = "idle"
        /\ p = Root => \A q \in Paths \ {Root} : calls.pc[q] = "idle"
        /\ p # Root =>
              /\ SlotOf(p) = StubFor(p)
              /\ calls.pc[Parent(p)] \in {"fanout", "returned"}
              /\ Quiescent =>
                    /\ calls.pc[Parent(p)] = "returned"
                    /\ calls.ret[Parent(p)].children[Last(p)] = StubFor(p)
                    /\ \A c \in ChildCalls(Parent(p)) :
                          /\ calls.pc[c] \in {"returned", "failed"}
                          /\ calls.ret[Parent(p)].children[Last(c)] = SlotOf(c)
                          /\ OwnFailure(c) <=> SlotOf(c) = StubFor(c)
                          /\ ~OwnFailure(c) => SlotOf(c) = calls.ret[c]

\* The second page of the listing of the root's first child failed after the
\* first page was received; the root returned with that child as a stub and
\* its other children fetched.
C19_Witness ==
    /\ ListingFailed(<<1>>)
    /\ calls.childPages[<<1>>] # <<>>
    /\ calls.cursor[<<1>>] # NoCursor
    /\ calls.pc[Root] = "returned"
    /\ calls.pc[<<2>>] = "returned"
    /\ calls.pc[<<3>>] = "returned"

RECURSIVE ExpectedNode(_)
\* The node for call p when every failure stays with the node it happened
\* for: the stub if a request made for p's own page failed, else the page's
\* own content with one such node per listed child while depth remains.
ExpectedNode(p) ==
    IF p # Root /\ OwnFailure(p) THEN StubFor(p)
    ELSE LET id == PageIdOf(calls, p)
             listing == FullListing(id)
         IN [id |-> id, title |-> PageTitle(id),
             content |-> PageContent(SourcePage(id)),
             children |-> IF DepthOf(p) > 0
                          THEN [k \in 1..Len(listing) |-> ExpectedNode(Child(p, k))]
                          ELSE <<>>]

\* C20: a failure stays in the subtree where it happened: a node kept by a
\* parent is a stub exactly when a request made for that node itself (its
\* page fetch, or its child listing while depth remains) failed; a failure
\* below a node neither makes the node fail or a stub, nor changes its
\* content, nor removes any of its other children: every returned node is
\* what the source and the failures of its own subtree determine.
C20_FailureIsolated ==
    /\ \A p \in Paths \ {Root} :
          /\ calls.pc[p] = "failed" <=> OwnFailure(p)
          /\ calls.pc[p] \in {"returned", "failed"} =>
                /\ IsStub(SlotOf(p)) <=> OwnFailure(p)
                /\ SlotOf(p) = ExpectedNode(p)
    /\ \A p \in Paths :
          calls.pc[p] = "returned" =>
              /\ calls.ret[p] = ExpectedNode(p)
              /\ calls.ret[p].content = PageContent(SourcePage(PageIdOf(calls, p)))
              /\ DepthOf(p) > 0 =>
                    Len(calls.ret[p].children) = Len(FullListing(PageIdOf(calls, p)))

\* Two levels down a page fetch failed and one level down a listing failed:
\* the root returned, its third child is a real node holding the stub of its
\* own child, its first child is a stub, its second child is untouched.
C20_Witness ==
    /\ calls.pc[Root] = "returned"
    /\ <<<<3, 1>>, "fetchPage">> \in failures
    /\ <<<<1>>, "listChildren">> \in failures
    /\ ~IsStub(calls.ret[Root].children[3])
    /\ IsStub(calls.ret[Root].children[3].children[1])
    /\ IsStub(calls.ret[Root].children[1])
    /\ ~IsStub(calls.ret[Root].children[2])
    /\ calls.ret[Root].children[2] = calls.ret[<<2>>]

\* Call q was made by call p or by a call below it (or is p itself).
Within(p, q) == Len(q) >= Len(p) /\ SubSeq(q, 1, Len(p)) = p

\* C21: a call of fetchPageTree that has returned or failed has left nothing
\* behind: none of its workers is still running, and neither it nor any call
\* made below it has a request (or the import) pending or a fan-out open.
C21_NothingOutlivesItsCall ==
    \A p \in Paths : calls.pc[p] \in {"returned", "failed"} =>
        /\ WorkersDone(calls.workers[p])
        /\ \A q \in Paths : Within(p, q) => calls.pc[q] \in {"idle", "returned", "failed"}
        /\ calls.pc[p] = "returned" /\ DepthOf(p) > 0 =>
              /\ calls.idx[p] = Len(calls.childPages[p])
              /\ \A k \in 1..Len(calls.results[p]) : calls.results[p][k] # Hole

\* A call below the root returned after a fan-out of two workers while a
\* sibling call is still in progress.
C21_Witness ==
    /\ calls.pc[<<1>>] = "returned"
    /\ Len(calls.workers[<<1>>]) = 2
    /\ calls.pc[Root] = "fanout"
    /\ InProgress(<<2>>) \/ InProgress(<<3>>)

\* The workers of call p that await the child call of index k (1-based).
HeldBy(c, p, k) == {w \in 1..Len(c.workers[p]) : c.workers[p][w] = k}

Settled(c, q) == c.pc[q] \in {"returned", "failed"}

\* In a fan-out the indices below idx are exactly the claimed ones: each is
\* either held by one worker, its child call running and its slot empty, or
\* held by none, its child call settled and its slot written; no index at or
\* above idx has been touched; a returned fan-out has claimed every index.
ClaimsConsistent ==
    \A p \in Paths : calls.pc[p] \in {"fanout", "returned"} =>
        LET n == Len(calls.childPages[p]) IN
        /\ calls.idx[p] \in 0..n
        /\ Len(calls.results[p]) = n
        /\ Len(calls.workers[p]) = Min(concurrency, n)
        /\ calls.pc[p] = "returned" => calls.idx[p] = n
        /\ \A k \in 1..n :
              IF k > calls.idx[p]
              THEN /\ calls.pc[Child(p, k)] = "idle"
                   /\ calls.results[p][k] = Hole
                   /\ HeldBy(calls, p, k) = {}
              ELSE \/ /\ Cardinality(HeldBy(calls, p, k)) = 1
                      /\ InProgress(Child(p, k))
                      /\ calls.results[p][k] = Hole
                   \/ /\ HeldBy(calls, p, k) = {}
                      /\ Settled(calls, Child(p, k))
                      /\ calls.results[p][k] # Hole

\* One step of a fan-out: idx only grows; a written slot is never written
\* again; a slot is written in the step in which the child call of its index
\* settles, the one worker that claimed the index still holding it; a worker
\* gives up its index only when the slot is written; a settled child call is
\* never run again.
ClaimStep ==
    \A p \in Paths : calls.pc[p] = "fanout" =>
        /\ calls'.idx[p] >= calls.idx[p]
        /\ calls'.childPages[p] = calls.childPages[p]
        /\ \A k \in 1..Len(calls.childPages[p]) :
              /\ calls.results[p][k] # Hole => calls'.results[p][k] = calls.results[p][k]
              /\ (calls.results[p][k] = Hole /\ calls'.results[p][k] # Hole) =>
                    /\ Cardinality(HeldBy(calls, p, k)) = 1
                    /\ InProgress(Child(p, k))
                    /\ Settled(calls', Child(p, k))
              /\ \A w \in HeldBy(calls, p, k) :
                    calls'.workers[p][w] # k => calls'.results[p][k] # Hole
              /\ Settled(calls, Child(p, k)) =>
                    calls'.pc[Child(p, k)] = calls.pc[Child(p, k)]

\* C22: in every fan-out each index 0..n-1 is claimed once, by one worker
\* (none skipped, none processed twice), and each result slot is written
\* once, by the worker that claimed it, whatever the order in which the
\* workers resume.
C22_EachIndexClaimedOnce == []ClaimsConsistent /\ [][ClaimStep]_vars

\* Three children shared by two workers: the second child settled first and
\* its worker claimed the third index while the first child is still running.
C22_Witness ==
    /\ concurrency = 2
    /\ calls.pc[Root] = "fanout"
    /\ calls.idx[Root] = 3
    /\ calls.workers[Root] = <<1, 3>>
    /\ calls.results[Root][2] # Hole
    /\ calls.results[Root][1] = Hole

\* The calls that have a request in flight at the source.
RequestsInFlight == {p \in Paths : InFlight(p)}

\* C23: the concurrency limit bounds each fan-out, not the whole tree: the
\* child calls of one node never have more than `concurrency` requests in
\* flight, each request in flight below the root being awaited by its own
\* worker of the parent's open fan-out, while the requests of different
\* fan-outs add up (the witness has more than `concurrency` in flight).
C23_LimitIsPerFanOut ==
    /\ \A p \in Paths :
          Cardinality(RequestsInFlight \cap ChildCalls(p)) <= concurrency
    /\ \A q \in RequestsInFlight \ {Root} :
          /\ calls.pc[Parent(q)] = "fanout"
          /\ Cardinality(HeldBy(calls, Parent(q), Last(q))) = 1

\* Depth 2, concurrency 2: two children of the root's first child and the
\* root's second child have a request in flight at the same time.
C23_Witness ==
    /\ depth >= 2
    /\ concurrency = 2
    /\ Cardinality(RequestsInFlight) > concurrency
    /\ {<<1, 1>>, <<1, 2>>, <<2>>} \subseteq RequestsInFlight
    /\ Len(FullListing(RootId)) >= 2
    /\ Len(FullListing(PageIdOf(calls, <<1>>))) >= 2

\* C27: the number of requests in flight at the same time over the whole
\* call never exceeds concurrency^depth when depth >= 1, and never exceeds 1
\* when depth = 0.
C27_InFlightAtMostCPowerD ==
    /\ depth >= 1 => Cardinality(RequestsInFlight) <= concurrency ^ depth
    /\ depth = 0 => Cardinality(RequestsInFlight) <= 1

\* Depth 2, concurrency 2: three requests are in flight, two below the
\* root's first child and one below its third, more than the limit and
\* within 2^2.
C27_Witness ==
    /\ depth = 2
    /\ concurrency = 2
    /\ RequestsInFlight = {<<1, 1>>, <<1, 2>>, <<3, 1>>}

\* The places in hunk hk that hold an add or a remove.
ChangesIn(hk) == {k \in 1..Len(hk) : diffLines[hk[k]].type # "context"}

Greatest(S) == CHOOSE x \in S : \A y \in S : y <= x

\* C24: every hunk is a run of consecutive lines of the edit script with at
\* least one add or remove; before its first change it has contextLines
\* context lines, or all the lines before the change when the script has
\* fewer, and after its last change contextLines context lines, or all the
\* lines that remain when the script has fewer.
C24_HunkShape ==
    Diffed =>
        \A h \in 1..Len(hunks) :
            LET hk == hunks[h]
                first == Least(ChangesIn(hk))
                last == Greatest(ChangesIn(hk))
            IN /\ \A k \in 1..(Len(hk) - 1) : hk[k + 1] = hk[k] + 1
               /\ \A k \in 1..Len(hk) : hk[k] \in 1..Len(diffLines)
               /\ ChangesIn(hk) # {}
               /\ first - 1 = Min(contextLinesDefault, hk[first] - 1)
               /\ Len(hk) - last = Min(contextLinesDefault, Len(diffLines) - hk[last])

\* A hunk keeps three of the four context lines before its change and ends
\* with the change, the last line of the script.
C24_Witness ==
    /\ Diffed
    /\ \E h \in 1..Len(hunks) :
          LET hk == hunks[h]
          IN /\ ChangesIn(hk) # {}
             /\ Least(ChangesIn(hk)) = 4
             /\ hk[1] > 1
             /\ hk[Len(hk)] = Len(diffLines)
             /\ Greatest(ChangesIn(hk)) = Len(hk)

\* C25: in the edit script, inside every maximal run of consecutive
\* non-context lines all remove lines come before all add lines: no add is
\* followed by a remove without a context line in between.
C25_RemovesBeforeAdds ==
    Diffed =>
        \A k \in 1..Len(diffLines), m \in 1..Len(diffLines) :
            (/\ k < m
             /\ \A i \in k..m : diffLines[i].type # "context"
             /\ diffLines[k].type = "add") => diffLines[m].type = "add"

\* A run of two removes followed by two adds, between context lines.
C25_Witness ==
    /\ Diffed
    /\ \E k \in 2..(Len(diffLines) - 4) :
          /\ diffLines[k - 1].type = "context"
          /\ diffLines[k].type = "remove"
          /\ diffLines[k + 1].type = "remove"
          /\ diffLines[k + 2].type = "add"
          /\ diffLines[k + 3].type = "add"
          /\ diffLines[k + 4].type = "context"

RECURSIVE LcsLength(_, _)
\* The length of a longest common subsequence of a and b, by definition.
LcsLength(a, b) ==
    IF a = <<>> \/ b = <<>> THEN 0
    ELSE IF Head(a) = Head(b) THEN 1 + LcsLength(Tail(a), Tail(b))
    ELSE Max(LcsLength(Tail(a), b), LcsLength(a, Tail(b)))

\* C26: the edit script is minimal: its context lines are as many as a
\* longest common subsequence of the old and the new lines has, which is
\* dp[m][n]; so it has |old| - LCS removes and |new| - LCS adds, and the
\* stats are deletions = |old| - LCS, additions = |new| - LCS, their
\* difference |new| - |old|.
C26_ScriptIsMinimal ==
    Diffed =>
        LET old == Split(oldText)
            new == Split(newText)
            lcs == LcsLength(old, new)
        IN /\ DpAt(longestCommonSubsequence(old, new), Len(old), Len(new)) = lcs
           /\ Len(LinesOf(diffLines, {"context"})) = lcs
           /\ Len(LinesOf(diffLines, {"remove"})) = Len(old) - lcs
           /\ Len(LinesOf(diffLines, {"add"})) = Len(new) - lcs
           /\ dpc = "done" =>
                 /\ stats.deletions = Len(old) - lcs
                 /\ stats.additions = Len(new) - lcs
                 /\ stats.additions - stats.deletions = Len(new) - Len(old)

\* Texts of different lengths with a common subsequence that is neither
\* empty nor one of the texts; both results were computed.
C26_Witness ==
    /\ dpc = "done"
    /\ Len(Split(oldText)) = 3
    /\ Len(Split(newText)) = 4
    /\ LcsLength(Split(oldText), Split(newText)) = 2
    /\ stats.additions = 2
    /\ stats.deletions = 1

(***************************************************************************)
(* C28: termination                                                        *)
(***************************************************************************)
\* The root call has settled: it returned a tree or failed.
Completed == calls.pc[Root] \in {"returned", "failed"}

\* An import or a request of some call has not been answered yet.
AnswerPending == ~Quiescent

\* A step of the call is possible exactly when an answer is pending.
EnabledWhenPending == (ENABLED <<TreeNext>>_vars) <=> AnswerPending

\* TreeFairSpec with the weak fairness condition written out,
\*   WF_vars(TreeNext) = []<>~ENABLED <<TreeNext>>_vars \/ []<><<TreeNext>>_vars,
\* and ENABLED <<TreeNext>>_vars replaced by the state predicate it equals in
\* every reachable state (EnabledWhenPending): every pending import and
\* request is eventually answered.
TreeAnsweredSpec == TreeSpec /\ ([]<>~AnswerPending \/ []<><<TreeNext>>_vars)

\* C28: when every pending request is eventually answered, fetchPageTree
\* eventually completes (it returns a tree or fails at the root), for every
\* depth and concurrency, although the source lists R below C and A below A.
C28_EventuallyCompletes == <>Completed

\* The call completed at the greatest depth on the cyclic source: the root
\* appears again as its own grandchild and A as its own child.
C28_Witness ==
    /\ calls.pc[Root] = "returned"
    /\ depth = MaxDepth
    /\ failures = {}
    /\ Len(calls.ret[Root].children) = 3
    /\ Len(calls.ret[Root].children[3].children) = 1
    /\ calls.ret[Root].children[3].children[1].id = RootId
    /\ Len(calls.ret[Root].children[1].children) = 2
    /\ calls.ret[Root].children[1].children[2].id = "A"
    /\ calls.ret[Root].children[1].children[2].children = <<>>

(***************************************************************************)
(* C29: pagination of fetchChildPages                                      *)
(***************************************************************************)
\* The source's answer to the GET of page k of the listing.
PageAnswer(k) == listSource[Min(k, Len(listSource))]
\* Page k succeeded and carried a next link with a non-empty cursor.
HasToken(k) == PageAnswer(k).ok /\ PageAnswer(k).link = "cursor"

RECURSIVE EntriesUpTo(_)
\* The entries of pages 1..k, in order.
EntriesUpTo(k) == IF k = 0 THEN <<>> ELSE EntriesUpTo(k - 1) \o PageAnswer(k).results

\* C29: the GETs are those of pages 1, 2, ... in order, the first without a
\* cursor; page k+1 is requested if and only if page k succeeded with a next
\* link and a non-empty cursor (so the call returns at the first page without
\* one and fails at the first page that fails); the collected entries are
\* the in-order concatenation of the pages answered, which is the value
\* returned; an empty first page without a token returns the empty list; and
\* the call never returns when every page carries a token.
C29_Pagination ==
    lpc # "off" =>
        LET n == Len(asked) IN
        /\ n >= 1
        /\ \A k \in 1..n : asked[k] = CursorOfPage(k)
        /\ cursor = asked[n]
        /\ \A k \in 1..(n - 1) : HasToken(k)
        /\ lpc = "returned" => PageAnswer(n).ok /\ ~HasToken(n)
        /\ lpc = "failed" => ~PageAnswer(n).ok
        /\ allPages = EntriesUpTo(IF lpc = "returned" THEN n ELSE n - 1)
        /\ (/\ lpc = "returned"
            /\ listSource[1].results = <<>>
            /\ listSource[1].link # "cursor") => n = 1 /\ allPages = <<>>
        /\ (\A k \in 1..Len(listSource) : HasToken(k)) => lpc = "request"

\* Three pages were requested and the call returned their entries: the
\* third page carried a next link without a cursor.
C29_Witness ==
    /\ lpc = "returned"
    /\ Len(asked) = 3
    /\ PageAnswer(3).link = "nocursor"
    /\ Len(allPages) = 4
    /\ allPages[1] # allPages[2]

(***************************************************************************)
(* C30: the returned tree is a function of the source                      *)
(***************************************************************************)
\* Call p has been made.
Made(p) == calls.pc[p] # "idle"
\* The page fetch of call p was answered with the page.
FetchedOk(p) == calls.page[p] # NoPage
FetchFailed(p) == <<p, "fetchPage">> \in failures
\* The child listing of call p was answered to its last page.
ListedOk(p) == DepthOf(p) > 0 /\ calls.pc[p] \in {"fanout", "returned"}

\* The source answered by id alone: no page was fetched for one call and
\* refused to another, and no listing either.
AnswersByIdOnly ==
    \A p, q \in {c \in Paths : Made(c)} :
        PageIdOf(calls, p) = PageIdOf(calls, q) =>
            /\ ~(FetchFailed(p) /\ FetchedOk(q))
            /\ ~(ListingFailed(p) /\ ListedOk(q))

\* The requests the source refused, by id.
Refused == {<<PageIdOf(calls, f[1]), f[2]>> : f \in failures}

\* fetchPageTree(id, d) fails against a source that refuses bad.
FailsFor(bad, id, d) ==
    <<id, "fetchPage">> \in bad \/ (d > 0 /\ <<id, "listChildren">> \in bad)

RECURSIVE TreeFor(_, _, _)
\* The tree of page id to depth d against a source that refuses bad: a
\* function of the source, the id and the depth alone.
TreeFor(bad, id, d) ==
    [id |-> id, title |-> PageTitle(id), content |-> PageContent(SourcePage(id)),
     children |->
        IF d = 0 THEN <<>>
        ELSE [k \in 1..Len(FullListing(id)) |->
                LET entry == FullListing(id)[k]
                IN IF FailsFor(bad, entry.id, d - 1)
                   THEN [id |-> entry.id, title |-> entry.title,
                         content |-> <<"[Error fetching page: ", "Confluence API error",
                                       ErrStatus(entry.id), "]">>,
                         children |-> <<>>]
                   ELSE TreeFor(bad, entry.id, d - 1)]]

\* C30: when the source answers by id alone, the outcome of the call is the
\* one function of the source, the root and the depth, whatever the order
\* in which the requests completed and whatever the concurrency: any two
\* runs on the same source with the same root and depth end alike.
C30_TreeIsAFunctionOfTheSource ==
    (Completed /\ AnswersByIdOnly) =>
        IF FailsFor(Refused, RootId, depth)
        THEN /\ calls.pc[Root] = "failed"
             /\ calls.err[Root] = <<"Confluence API error", ErrStatus(RootId)>>
        ELSE /\ calls.pc[Root] = "returned"
             /\ calls.ret[Root] = TreeFor(Refused, RootId, depth)

\* Page B is refused both as a child of the root and as a child of A, two
\* requests ran at a time, and the call returned with both as stubs.
C30_Witness ==
    /\ calls.pc[Root] = "returned"
    /\ depth = 2
    /\ concurrency = 2
    /\ AnswersByIdOnly
    /\ FetchFailed(<<2>>)
    /\ FetchFailed(<<1, 1>>)
    /\ FetchedOk(<<1, 2>>)
    /\ FetchedOk(<<3, 1>>)
====
